---- MODULE Spec2Model ----
(***************************************************************************)
(* A model of src/src/main.cpp: the wireframe renderer's start-up, its     *)
(* render loop, and the mesh functions constructMesh / cube / drawMesh.    *)
(*                                                                         *)
(* The program is one thread; every statement that touches the OpenGL      *)
(* context, the window or the process is one step, and pc is the position  *)
(* of the thread.  The OpenGL context is ambient state: the polygon mode,  *)
(* the depth-test capability, the program in use, the bound vertex array,  *)
(* the bound array buffer, and the vertex-array and buffer objects.        *)
(*                                                                         *)
(* Two specifications:                                                     *)
(*   Spec      main() as written (the mesh comes from assimpLoad);         *)
(*   MeshSpec  constructMesh, cube and drawMesh called in any order on     *)
(*             valid inputs, for the claims about the mesh functions.      *)
(*                                                                         *)
(* ShaderProgram (include/ShaderProgram.h, src/ShaderProgram.cpp) is not   *)
(* among the sources; its load / activate / setUniform and its teardown    *)
(* are modelled from the specification, sections 3 and 4.1.                *)
(***************************************************************************)
EXTENDS Integers, Sequences, FiniteSets, TLC

\* ------------------------------------------------------------- bounds
\* Largest mNumVertices / vertices.size() of a generated mesh.
MaxVerts == 2
\* Largest mNumFaces (triangles) of a generated mesh.
MaxFaces == 1
\* Most events one drain of window.pollEvent delivers.
MaxEvents == 2
\* Most iterations of the render loop that are explored.
MaxFrames == 5
\* Most meshes constructed in MeshSpec.
MaxMeshes == 2
\* Most draw calls issued in MeshSpec.
MaxDraws == 2

\* ------------------------------------------------- program constants
VERTICES_PER_FACE == 3

\* The float literals of main(), as IEEE-754 single-precision values.
\* glm::vec3 holds 32-bit floats, so the double literal 0.0003 is stored as
\* the nearest float, 10307922 * 2^-35, and 0.00005 as 13743895 * 2^-38.
\* objectOrientation.y is kept in units of 2^-35.
DeltaOrientationY == 10307922
\* objectPosition.z is kept in units of 2^-23, the spacing of the floats of
\* magnitude in [1,2]; the increment is kept in units of 2^-38.
DeltaPositionZ == 13743895
\* 2^-23 / 2^-38: increment units per unit of objectPosition.z.
PosZFine == 2^15
\* -2.0f in units of 2^-23.
PosZInit == -16777216
\* -0.1f = -13421773 * 2^-27 (objectPosition.y, never changed).
PosYInit == -13421773
\* 2^24: a float has 24 significant bits.
TwoTo24 == 2^24

\* ---------------------------------------------------------- arithmetic
\* x / q rounded to the nearest integer, ties to the even integer (the
\* IEEE-754 default rounding), for q > 0.
RoundDivEven(x, q) ==
  LET k == x \div q
      r == x % q
  IN  IF 2 * r < q THEN k
      ELSE IF 2 * r > q THEN k + 1
      ELSE IF k % 2 = 0 THEN k ELSE k + 1

\* The spacing of the floats around the integer x >= 0 (1 when x has at
\* most 24 significant bits).
RECURSIVE Ulp(_)
Ulp(x) == IF x < TwoTo24 THEN 1 ELSE 2 * Ulp(x \div 2)

\* The float nearest to the non-negative integer x.
RoundToFloat(x) == LET u == Ulp(x) IN u * RoundDivEven(x, u)

\* float + float for objectOrientation.y (both in units of 2^-35, >= 0).
FloatAddY(y, d) == RoundToFloat(y + d)

\* float + float for objectPosition.z: z in units of 2^-23 with
\* 2^23 <= |z| <= 2^24 (so the result is a multiple of 2^-23), d >= 0 in
\* units of 2^-38.  The exact sum is z + d / PosZFine.
FloatAddZ(z, d) == z + RoundDivEven((z % 2) * PosZFine + d, PosZFine) - (z % 2)

\* ------------------------------------------------------------ the data
\* A Vertex3D is <<x, y, z>>; the coordinates are in units of 0.5, which
\* floats hold exactly.
CubeVertices ==
  << << 1,  1, -1>>, <<-1,  1, -1>>, <<-1, -1, -1>>, << 1, -1, -1>>,
     << 1,  1,  1>>, <<-1,  1,  1>>, <<-1, -1,  1>>, << 1, -1,  1>> >>

CubeFaces ==
  << 0, 1, 2,   0, 2, 3,   4, 0, 3,   4, 3, 7,   5, 4, 7,   5, 7, 6,
     1, 5, 6,   1, 6, 2,   4, 5, 1,   4, 1, 0,   2, 6, 7,   2, 7, 3 >>

\* What the importer can hand back as an aiMesh: 1..MaxVerts vertices (the
\* first corners of the cube) and 1..MaxFaces triangles whose indices are
\* below mNumVertices.  mFaces[i].mIndices is <<i0, i1, i2>>; the first face
\* is any triple of indices, each later face the one before it with every
\* index moved on by one.
FaceLists(nv) ==
  { [i \in 1..nf |-> <<(a + i - 1) % nv, (b + i - 1) % nv, (c + i - 1) % nv>>] :
      a \in 0..(nv - 1), b \in 0..(nv - 1), c \in 0..(nv - 1), nf \in 1..MaxFaces }

AiMeshes ==
  UNION { { [mNumVertices |-> nv,
             mVertices    |-> SubSeq(CubeVertices, 1, nv),
             mNumFaces    |-> Len(fs),
             mFaces       |-> fs] : fs \in FaceLists(nv) } :
          nv \in 1..MaxVerts }

\* What Importer::ReadFile can return: nullptr, a scene without a mesh, or
\* a scene whose first mesh is one of AiMeshes.
AiScenes ==
  {[status |-> "nullptr", mNumMeshes |-> 0, mMeshes |-> << >>]}
    \cup {[status |-> "scene", mNumMeshes |-> 0, mMeshes |-> << >>]}
    \cup {[status |-> "scene", mNumMeshes |-> 1, mMeshes |-> <<mesh>>] :
            mesh \in AiMeshes}

\* sf::Event::type values that matter to the loop, and two more.
EventTypes == {"Closed", "Resized", "KeyPressed"}

\* window.getSize(): the initial size and the size after a resize.
InitialSize == <<1200, 800>>
ResizedSize == <<800, 800>>

\* now - last, in clock ticks: the frames do not take the same time.
ElapsedTimes == {1, 2}

\* The smallest unused object name (glGen* returns unused names, never 0).
NewName(used) == CHOOSE n \in 1..(Cardinality(used) + 1) :
                   n \notin used /\ \A k \in 1..(n - 1) : k \in used

VARIABLES
  pc,                \* position of the thread
  caller,            \* where constructMesh / drawMesh return to
  \* the OpenGL context
  polygonMode, depthTest, currentProgram, boundVAO, boundArrayBuffer,
  vaos,              \* vertex array name -> its state
  buffers,           \* buffer name -> its data store
  \* the shader program object
  program, programs, uniforms, activations,
  \* the window
  windowOpen, windowSize,
  \* locals of constructMesh, drawMesh and assimpLoad
  vertices, faces, m, vbo, ebo, dm, scene,
  \* locals of main
  obj, objectPosition, objectOrientation, objectScale, running, diff,
  camera, perspective, model,
  \* the process
  exitStatus, errors,
  \* history, read by the properties only
  frame,             \* iterations of the loop begun
  polls,             \* events delivered in the current drain
  frameLog,          \* the steps of the current iteration, in order
  closedFrame,       \* the iteration that saw the close event, or 0
  made,              \* the meshes constructMesh returned, with their inputs
  drawCalls          \* the glDrawElements calls issued

glVars   == <<polygonMode, depthTest, currentProgram, boundVAO, boundArrayBuffer,
              vaos, buffers>>
shVars   == <<program, programs, uniforms, activations>>
winVars  == <<windowOpen, windowSize>>
meshVars == <<vertices, faces, m, vbo, ebo, dm, made, drawCalls>>
animVars == <<objectPosition, objectOrientation, objectScale>>
loopVars == <<running, diff, camera, perspective, model, frame, polls, frameLog,
              closedFrame>>
procVars == <<exitStatus, errors>>
vars     == <<pc, caller, glVars, shVars, winVars, meshVars, scene, obj, animVars,
              loopVars, procVars>>

\* The values of locals before their declaration is reached.
NoMesh   == [vao |-> 0, faces |-> 0]
NoMatrix == [kind |-> "unset"]
NoScene  == [status |-> "unread", mNumMeshes |-> 0, mMeshes |-> << >>]
NoVec3   == <<0, 0, 0>>
\* exitStatus while the process has not ended.
StillRunning == 0 - 1

InitCommon ==
  /\ caller = "none"
  /\ polygonMode = "GL_FILL" /\ depthTest = FALSE
  /\ currentProgram = 0 /\ boundVAO = 0 /\ boundArrayBuffer = 0
  /\ vaos = << >> /\ buffers = << >>
  /\ program = [id |-> 0, linked |-> FALSE, error |-> "none"] /\ programs = {}
  /\ uniforms = [n \in {"color", "view", "projection", "model"} |-> NoMatrix]
  /\ activations = 0
  /\ windowSize = InitialSize
  /\ vertices = << >> /\ faces = << >>
  /\ m = NoMesh /\ vbo = 0 /\ ebo = 0 /\ dm = NoMesh /\ scene = NoScene
  /\ obj = NoMesh
  /\ objectPosition = NoVec3 /\ objectOrientation = NoVec3 /\ objectScale = NoVec3
  /\ running = FALSE /\ diff = 0
  /\ camera = NoMatrix /\ perspective = NoMatrix /\ model = NoMatrix
  /\ exitStatus = StillRunning /\ errors = << >>
  /\ frame = 0 /\ polls = 0 /\ frameLog = << >> /\ closedFrame = 0
  /\ made = << >> /\ drawCalls = << >>

\* The state when main() is entered: no window, a context in its default
\* state (fill mode, depth test disabled, no program, nothing bound).
Init == InitCommon /\ pc = "main" /\ windowOpen = FALSE

Log(step) == frameLog' = Append(frameLog, step)

\* ------------------------------------------------------- ShaderProgram
\* ShaderProgram::load: compiles both stages and links them; it ends by
\* storing the linked program's handle, or by throwing a ShaderCompileError
\* or a ShaderLinkError (both std::runtime_error).
ShaderLoadOutcomes == {"linked", "ShaderCompileError", "ShaderLinkError"}

\* The program object after load ended with the given outcome.
ShaderLoad(outcome) ==
  IF outcome = "linked"
  THEN /\ program' = [id |-> NewName(programs), linked |-> TRUE, error |-> "none"]
       /\ programs' = programs \cup {NewName(programs)}
  ELSE /\ program' = [id |-> 0, linked |-> FALSE, error |-> outcome]
       /\ UNCHANGED programs

\* ShaderProgram::activate: installs the program as the current one.
ShaderActivate ==
  /\ currentProgram' = program.id
  /\ activations' = activations + 1

\* ShaderProgram::setUniform: looks the name up in this program and uploads
\* the value to the program in use; the upload reaches this program only
\* when this program is the one in use.
ShaderSetUniform(name, value) ==
  uniforms' = IF program.linked /\ currentProgram = program.id
              THEN [uniforms EXCEPT ![name] = value]
              ELSE uniforms

\* ~ShaderProgram: the GPU program is released at object teardown.
ShaderRelease ==
  /\ programs' = programs \ {program.id}
  /\ currentProgram' = IF currentProgram = program.id THEN 0 ELSE currentProgram

\* ------------------------------------------------------- constructMesh
\* A vertex array object as glGenVertexArrays makes it.
NewVertexArray == [attrib0 |-> [kind |-> "unset"], enabled0 |-> FALSE, elementBuffer |-> 0]

\* constructMesh_begin with the vertex count stored as the index count.
constructMesh_begin_vertexCount ==
  /\ pc = "constructMesh"
  /\ m' = [vao |-> 0, faces |-> Len(vertices)]
  /\ pc' = "cm_glGenVertexArrays"
  /\ UNCHANGED <<caller, glVars, shVars, winVars, vertices, faces, vbo, ebo, dm, made,
                 drawCalls, scene, obj, animVars, loopVars, procVars>>

\* Mesh m{}; m.faces = faces.size();
constructMesh_begin ==
  /\ pc = "constructMesh"
  /\ m' = [vao |-> 0, faces |-> Len(faces)]
  /\ pc' = "cm_glGenVertexArrays"
  /\ UNCHANGED <<caller, glVars, shVars, winVars, vertices, faces, vbo, ebo, dm, made,
                 drawCalls, scene, obj, animVars, loopVars, procVars>>

\* glGenVertexArrays(1, &m.vao);
constructMesh_glGenVertexArrays ==
  /\ pc = "cm_glGenVertexArrays"
  /\ LET name == NewName(DOMAIN vaos)
     IN  /\ m' = [m EXCEPT !.vao = name]
         /\ vaos' = vaos @@ (name :> NewVertexArray)
  /\ pc' = "cm_glBindVertexArray"
  /\ UNCHANGED <<caller, polygonMode, depthTest, currentProgram, boundVAO,
                 boundArrayBuffer, buffers, shVars, winVars, vertices, faces, vbo, ebo,
                 dm, made, drawCalls, scene, obj, animVars, loopVars, procVars>>

\* glBindVertexArray(m.vao);
constructMesh_glBindVertexArray ==
  /\ pc = "cm_glBindVertexArray"
  /\ boundVAO' = m.vao
  /\ pc' = "cm_glGenBuffers_vbo"
  /\ UNCHANGED <<caller, polygonMode, depthTest, currentProgram, boundArrayBuffer, vaos,
                 buffers, shVars, winVars, meshVars, scene, obj, animVars, loopVars,
                 procVars>>

\* uint32_t vbo; glGenBuffers(1, &vbo);
constructMesh_glGenBuffers_vbo ==
  /\ pc = "cm_glGenBuffers_vbo"
  /\ LET name == NewName(DOMAIN buffers)
     IN  /\ vbo' = name
         /\ buffers' = buffers @@ (name :> << >>)
  /\ pc' = "cm_glBindBuffer_vbo"
  /\ UNCHANGED <<caller, polygonMode, depthTest, currentProgram, boundVAO,
                 boundArrayBuffer, vaos, shVars, winVars, vertices, faces, m, ebo, dm,
                 made, drawCalls, scene, obj, animVars, loopVars, procVars>>

\* glBindBuffer(GL_ARRAY_BUFFER, vbo);
constructMesh_glBindBuffer_vbo ==
  /\ pc = "cm_glBindBuffer_vbo"
  /\ boundArrayBuffer' = vbo
  /\ pc' = "cm_glBufferData_vbo"
  /\ UNCHANGED <<caller, polygonMode, depthTest, currentProgram, boundVAO, vaos, buffers,
                 shVars, winVars, meshVars, scene, obj, animVars, loopVars, procVars>>

\* glBufferData(GL_ARRAY_BUFFER, vertices.size() * sizeof(Vertex3D), &vertices[0], ...);
constructMesh_glBufferData_vbo ==
  /\ pc = "cm_glBufferData_vbo"
  /\ buffers' = [buffers EXCEPT ![boundArrayBuffer] = vertices]
  /\ pc' = "cm_glVertexAttribPointer"
  /\ UNCHANGED <<caller, polygonMode, depthTest, currentProgram, boundVAO,
                 boundArrayBuffer, vaos, shVars, winVars, meshVars, scene, obj, animVars,
                 loopVars, procVars>>

\* glVertexAttribPointer(0, 3, GL_FLOAT, false, 3 * sizeof(float), 0);
\* the attribute reads the buffer bound to GL_ARRAY_BUFFER at this call.
constructMesh_glVertexAttribPointer ==
  /\ pc = "cm_glVertexAttribPointer"
  /\ vaos' = [vaos EXCEPT ![boundVAO].attrib0 =
                [kind |-> "pointer", size |-> 3, type |-> "GL_FLOAT",
                 normalized |-> FALSE, stride |-> 12, offset |-> 0,
                 buffer |-> boundArrayBuffer]]
  /\ pc' = "cm_glEnableVertexAttribArray"
  /\ UNCHANGED <<caller, polygonMode, depthTest, currentProgram, boundVAO,
                 boundArrayBuffer, buffers, shVars, winVars, meshVars, scene, obj,
                 animVars, loopVars, procVars>>

\* glEnableVertexAttribArray(0);
constructMesh_glEnableVertexAttribArray ==
  /\ pc = "cm_glEnableVertexAttribArray"
  /\ vaos' = [vaos EXCEPT ![boundVAO].enabled0 = TRUE]
  /\ pc' = "cm_glGenBuffers_ebo"
  /\ UNCHANGED <<caller, polygonMode, depthTest, currentProgram, boundVAO,
                 boundArrayBuffer, buffers, shVars, winVars, meshVars, scene, obj,
                 animVars, loopVars, procVars>>

\* uint32_t ebo; glGenBuffers(1, &ebo);
constructMesh_glGenBuffers_ebo ==
  /\ pc = "cm_glGenBuffers_ebo"
  /\ LET name == NewName(DOMAIN buffers)
     IN  /\ ebo' = name
         /\ buffers' = buffers @@ (name :> << >>)
  /\ pc' = "cm_glBindBuffer_ebo"
  /\ UNCHANGED <<caller, polygonMode, depthTest, currentProgram, boundVAO,
                 boundArrayBuffer, vaos, shVars, winVars, vertices, faces, m, vbo, dm,
                 made, drawCalls, scene, obj, animVars, loopVars, procVars>>

\* glBindBuffer(GL_ELEMENT_ARRAY_BUFFER, ebo); the element-array binding is
\* part of the bound vertex array's state.
constructMesh_glBindBuffer_ebo ==
  /\ pc = "cm_glBindBuffer_ebo"
  /\ vaos' = [vaos EXCEPT ![boundVAO].elementBuffer = ebo]
  /\ pc' = "cm_glBufferData_ebo"
  /\ UNCHANGED <<caller, polygonMode, depthTest, currentProgram, boundVAO,
                 boundArrayBuffer, buffers, shVars, winVars, meshVars, scene, obj,
                 animVars, loopVars, procVars>>

\* glBufferData(GL_ELEMENT_ARRAY_BUFFER, faces.size() * sizeof(uint32_t), &faces[0], ...);
constructMesh_glBufferData_ebo ==
  /\ pc = "cm_glBufferData_ebo"
  /\ buffers' = [buffers EXCEPT ![vaos[boundVAO].elementBuffer] = faces]
  /\ pc' = "cm_unbind"
  /\ UNCHANGED <<caller, polygonMode, depthTest, currentProgram, boundVAO,
                 boundArrayBuffer, vaos, shVars, winVars, meshVars, scene, obj, animVars,
                 loopVars, procVars>>

\* glBindVertexArray(0);
constructMesh_unbind ==
  /\ pc = "cm_unbind"
  /\ boundVAO' = 0
  /\ pc' = "cm_return"
  /\ UNCHANGED <<caller, polygonMode, depthTest, currentProgram, boundArrayBuffer, vaos,
                 buffers, shVars, winVars, meshVars, scene, obj, animVars, loopVars,
                 procVars>>

\* return m;  (vbo and ebo go out of scope: their names are kept nowhere.)
constructMesh_return ==
  /\ pc = "cm_return"
  /\ made' = Append(made, [mesh |-> m, vertices |-> vertices, faces |-> faces,
                           vbo |-> vbo, ebo |-> ebo])
  /\ pc' = caller
  /\ UNCHANGED <<caller, glVars, shVars, winVars, vertices, faces, m, vbo, ebo, dm,
                 drawCalls, scene, obj, animVars, loopVars, procVars>>

\* ------------------------------------------------------------ drawMesh
\* glBindVertexArray(m.vao);
drawMesh_bind ==
  /\ pc = "drawMesh"
  /\ boundVAO' = dm.vao
  /\ pc' = "dm_glDrawElements"
  /\ UNCHANGED <<caller, polygonMode, depthTest, currentProgram, boundArrayBuffer, vaos,
                 buffers, shVars, winVars, meshVars, scene, obj, animVars, loopVars,
                 procVars>>

\* glDrawElements(GL_TRIANGLES, m.faces, GL_UNSIGNED_INT, nullptr);
drawMesh_glDrawElements ==
  /\ pc = "dm_glDrawElements"
  /\ drawCalls' = Append(drawCalls,
                    [mode |-> "GL_TRIANGLES", count |-> dm.faces,
                     type |-> "GL_UNSIGNED_INT", vao |-> boundVAO,
                     program |-> currentProgram])
  /\ Log("draw")
  /\ pc' = "dm_unbind"
  /\ UNCHANGED <<caller, glVars, shVars, winVars, vertices, faces, m, vbo, ebo, dm, made,
                 scene, obj, animVars, running, diff, camera, perspective, model, frame,
                 polls, closedFrame, procVars>>

\* drawMesh_unbind that also deactivates the program (glUseProgram(0)).
drawMesh_unbind_resetsProgram ==
  /\ pc = "dm_unbind"
  /\ boundVAO' = 0
  /\ currentProgram' = 0
  /\ pc' = caller
  /\ UNCHANGED <<caller, polygonMode, depthTest, boundArrayBuffer, vaos, buffers, shVars,
                 winVars, meshVars, scene, obj, animVars, loopVars, procVars>>

\* drawMesh_unbind without the glBindVertexArray(0).
drawMesh_unbind_keepsBinding ==
  /\ pc = "dm_unbind"
  /\ pc' = caller
  /\ UNCHANGED <<caller, glVars, shVars, winVars, meshVars, scene, obj, animVars,
                 loopVars, procVars>>

\* glBindVertexArray(0); and the return to the caller.
drawMesh_unbind ==
  /\ pc = "dm_unbind"
  /\ boundVAO' = 0
  /\ pc' = caller
  /\ UNCHANGED <<caller, polygonMode, depthTest, currentProgram, boundArrayBuffer, vaos,
                 buffers, shVars, winVars, meshVars, scene, obj, animVars, loopVars,
                 procVars>>

\* ---------------------------------------------------------- assimpLoad
\* fromAssimpMesh: the vertices copied one by one, and the three indices of
\* every face pushed in order.
RECURSIVE FaceIndices(_, _)
FaceIndices(mFaces, i) ==
  IF i > Len(mFaces) THEN << >>
  ELSE <<mFaces[i][1], mFaces[i][2], mFaces[i][3]>> \o FaceIndices(mFaces, i + 1)

fromAssimpMesh(mesh) ==
  [vertices |-> [i \in 1..mesh.mNumVertices |->
                   <<mesh.mVertices[i][1], mesh.mVertices[i][2], mesh.mVertices[i][3]>>],
   faces    |-> FaceIndices(SubSeq(mesh.mFaces, 1, mesh.mNumFaces), 1)]

\* const aiScene* scene = importer.ReadFile(path, ...);
assimpLoad_ReadFile ==
  /\ pc = "assimpLoad"
  /\ \E s \in AiScenes : scene' = s
  /\ pc' = "al_check"
  /\ UNCHANGED <<caller, glVars, shVars, winVars, meshVars, obj, animVars, loopVars,
                 procVars>>

\* if (nullptr == scene) { std::cout << "ASSIMP ERROR" << ...; exit(1); }
assimpLoad_failed ==
  /\ pc = "al_check"
  /\ scene.status = "nullptr"
  /\ errors' = Append(errors, "ASSIMP ERROR")
  /\ exitStatus' = 1
  /\ pc' = "exited"
  /\ UNCHANGED <<caller, glVars, shVars, winVars, meshVars, scene, obj, animVars,
                 loopVars>>

\* else { fromAssimpMesh(scene->mMeshes[0], vertices, faces);
\*        return constructMesh(vertices, faces); }    -- with a first mesh
assimpLoad_firstMesh ==
  /\ pc = "al_check"
  /\ scene.status # "nullptr"
  /\ scene.mNumMeshes > 0
  /\ LET read == fromAssimpMesh(scene.mMeshes[1])
     IN  /\ vertices' = read.vertices
         /\ faces' = read.faces
  /\ caller' = "al_return"
  /\ pc' = "constructMesh"
  /\ UNCHANGED <<glVars, shVars, winVars, m, vbo, ebo, dm, made, drawCalls, scene, obj,
                 animVars, loopVars, procVars>>

\* Status of a process killed by SIGSEGV.
CrashStatus == 128 + 11

\* The same branch when the scene holds no mesh: mNumMeshes is not looked at,
\* and scene->mMeshes[0] reads through a null array.  That is undefined:
\* the process is killed, or the read yields whatever lies there and the
\* program goes on with it.
assimpLoad_noMesh ==
  /\ pc = "al_check"
  /\ scene.status # "nullptr"
  /\ scene.mNumMeshes = 0
  /\ \/ /\ exitStatus' = CrashStatus
        /\ pc' = "exited"
        /\ UNCHANGED <<caller, vertices, faces>>
     \/ /\ \E garbage \in AiMeshes :
             LET read == fromAssimpMesh(garbage)
             IN  /\ vertices' = read.vertices
                 /\ faces' = read.faces
        /\ caller' = "al_return"
        /\ pc' = "constructMesh"
        /\ UNCHANGED exitStatus
  /\ UNCHANGED <<glVars, shVars, winVars, m, vbo, ebo, dm, made, drawCalls, scene, obj,
                 animVars, loopVars, errors>>

\* Mesh obj = assimpLoad("models/bunny.obj");   -- the value returned
assimpLoad_return ==
  /\ pc = "al_return"
  /\ obj' = m
  /\ pc' = "perspectiveUniformColorShader"
  /\ UNCHANGED <<caller, glVars, shVars, winVars, meshVars, scene, animVars, loopVars,
                 procVars>>

\* ------------------------------------------ perspectiveUniformColorShader
\* ShaderProgram shader; try { shader.load(..., ...);
perspectiveUniformColorShader_load ==
  /\ pc = "perspectiveUniformColorShader"
  /\ \E outcome \in ShaderLoadOutcomes :
       /\ ShaderLoad(outcome)
       /\ pc' = IF outcome = "linked" THEN "ps_activate" ELSE "ps_catch"
  /\ UNCHANGED <<caller, glVars, uniforms, activations, winVars, meshVars, scene, obj,
                 animVars, loopVars, procVars>>

\* shader.activate(); } ... return shader;
perspectiveUniformColorShader_activate ==
  /\ pc = "ps_activate"
  /\ ShaderActivate
  /\ pc' = "main_activate"
  /\ UNCHANGED <<caller, polygonMode, depthTest, boundVAO, boundArrayBuffer, vaos,
                 buffers, program, programs, uniforms, winVars, meshVars, scene, obj,
                 animVars, loopVars, procVars>>

\* The catch block without its exit(1): the error is reported and the
\* unloaded program is returned.
perspectiveUniformColorShader_catch_continues ==
  /\ pc = "ps_catch"
  /\ errors' = Append(errors, program.error)
  /\ pc' = "main_activate"
  /\ UNCHANGED <<caller, glVars, shVars, winVars, meshVars, scene, obj, animVars,
                 loopVars, exitStatus>>

\* catch (std::runtime_error& e) { std::cout << "ERROR: " << e.what(); exit(1); }
perspectiveUniformColorShader_catch ==
  /\ pc = "ps_catch"
  /\ errors' = Append(errors, program.error)
  /\ exitStatus' = 1
  /\ pc' = "exited"
  /\ UNCHANGED <<caller, glVars, shVars, winVars, meshVars, scene, obj, animVars,
                 loopVars>>

\* ------------------------------------------------------------------ main
\* sf::Window window(...); gladLoadGL();
main_window ==
  /\ pc = "main"
  /\ windowOpen' = TRUE
  /\ pc' = "main_glPolygonMode"
  /\ UNCHANGED <<caller, glVars, shVars, windowSize, meshVars, scene, obj, animVars,
                 loopVars, procVars>>

\* glPolygonMode(GL_FRONT_AND_BACK, GL_LINE);
main_glPolygonMode ==
  /\ pc = "main_glPolygonMode"
  /\ polygonMode' = "GL_LINE"
  /\ pc' = "assimpLoad"
  /\ UNCHANGED <<caller, depthTest, currentProgram, boundVAO, boundArrayBuffer, vaos,
                 buffers, shVars, winVars, meshVars, scene, obj, animVars, loopVars,
                 procVars>>

\* program.activate();
main_activate ==
  /\ pc = "main_activate"
  /\ ShaderActivate
  /\ pc' = "main_setColor"
  /\ UNCHANGED <<caller, polygonMode, depthTest, boundVAO, boundArrayBuffer, vaos,
                 buffers, program, programs, uniforms, winVars, meshVars, scene, obj,
                 animVars, loopVars, procVars>>

\* program.setUniform("color", glm::vec3(1, 0.2, 0.9));   (in tenths)
main_setColor ==
  /\ pc = "main_setColor"
  /\ ShaderSetUniform("color", [kind |-> "vec3", value |-> <<10, 2, 9>>])
  /\ pc' = "main_locals"
  /\ UNCHANGED <<caller, glVars, program, programs, activations, winVars, meshVars,
                 scene, obj, animVars, loopVars, procVars>>

\* glm::vec3 objectPosition = { 0, -0.1, -2 }; objectOrientation = { 0, 0, 0 };
\* objectScale = { 1, 1, 1 }; bool running = true;
main_locals ==
  /\ pc = "main_locals"
  /\ objectPosition' = <<0, PosYInit, PosZInit>>
  /\ objectOrientation' = <<0, 0, 0>>
  /\ objectScale' = <<1, 1, 1>>
  /\ running' = TRUE
  /\ pc' = "main_while"
  /\ UNCHANGED <<caller, glVars, shVars, winVars, meshVars, scene, obj, diff, camera,
                 perspective, model, frame, polls, frameLog, closedFrame, procVars>>

\* while (running) {            -- the test, and the entry into the body
main_while ==
  /\ pc = "main_while"
  /\ IF running
     THEN /\ frame < MaxFrames
          /\ frame' = frame + 1
          /\ polls' = 0
          /\ frameLog' = << >>
          /\ pc' = "main_pollEvent"
     ELSE /\ pc' = "main_return"
          /\ UNCHANGED <<frame, polls, frameLog>>
  /\ UNCHANGED <<caller, glVars, shVars, winVars, meshVars, scene, obj, animVars,
                 running, diff, camera, perspective, model, closedFrame, procVars>>

\* main_pollEvent leaving the loop at once when the close event arrives.
main_pollEvent_breaks ==
  /\ pc = "main_pollEvent"
  /\ \/ /\ polls < MaxEvents
        /\ \E type \in EventTypes :
             /\ running' = IF type = "Closed" THEN FALSE ELSE running
             /\ closedFrame' = IF type = "Closed" THEN frame ELSE closedFrame
             /\ windowSize' = IF type = "Resized" THEN ResizedSize ELSE windowSize
             /\ pc' = IF type = "Closed" THEN "main_return" ELSE pc
        /\ polls' = polls + 1
        /\ UNCHANGED frameLog
     \/ /\ Log("events")
        /\ pc' = "main_clock"
        /\ UNCHANGED <<running, closedFrame, windowSize, polls>>
  /\ UNCHANGED <<caller, glVars, shVars, windowOpen, meshVars, scene, obj, animVars,
                 diff, camera, perspective, model, frame, procVars>>

\* while (window.pollEvent(ev)) { if (ev.type == sf::Event::Closed) running = false; }
\* One call of pollEvent: it delivers an event, or reports that none is left.
main_pollEvent ==
  /\ pc = "main_pollEvent"
  /\ \/ /\ polls < MaxEvents
        /\ \E type \in EventTypes :
             /\ running' = IF type = "Closed" THEN FALSE ELSE running
             /\ closedFrame' = IF type = "Closed" THEN frame ELSE closedFrame
             /\ windowSize' = IF type = "Resized" THEN ResizedSize ELSE windowSize
        /\ polls' = polls + 1
        /\ UNCHANGED <<pc, frameLog>>
     \/ /\ Log("events")
        /\ pc' = "main_clock"
        /\ UNCHANGED <<running, closedFrame, windowSize, polls>>
  /\ UNCHANGED <<caller, glVars, shVars, windowOpen, meshVars, scene, obj, animVars,
                 diff, camera, perspective, model, frame, procVars>>

\* auto now = c.getElapsedTime(); auto diff = now - last; ... last = now;
main_clock ==
  /\ pc = "main_clock"
  /\ \E d \in ElapsedTimes : diff' = d
  /\ pc' = "main_lookAt"
  /\ UNCHANGED <<caller, glVars, shVars, winVars, meshVars, scene, obj, animVars,
                 running, camera, perspective, model, frame, polls, frameLog,
                 closedFrame, procVars>>

\* glm::mat4 camera = glm::lookAt(vec3(0,0,0), vec3(0,0,-1), vec3(0,1,0));
main_lookAt ==
  /\ pc = "main_lookAt"
  /\ camera' = [kind |-> "lookAt", eye |-> <<0, 0, 0>>, center |-> <<0, 0, -1>>,
                up |-> <<0, 1, 0>>]
  /\ Log("lookAt")
  /\ pc' = "main_perspective"
  /\ UNCHANGED <<caller, glVars, shVars, winVars, meshVars, scene, obj, animVars,
                 running, diff, perspective, model, frame, polls, closedFrame, procVars>>

\* glm::mat4 perspective = glm::perspective(glm::radians(45.0),
\*     static_cast<double>(window.getSize().x) / window.getSize().y, 0.1, 100.0);
\* (near in tenths, the aspect ratio as the pair it is the quotient of)
main_perspective ==
  /\ pc = "main_perspective"
  /\ perspective' = [kind |-> "perspective", fovDegrees |-> 45, aspect |-> windowSize,
                     nearTenths |-> 1, far |-> 100]
  /\ Log("perspective")
  /\ pc' = "main_setView"
  /\ UNCHANGED <<caller, glVars, shVars, winVars, meshVars, scene, obj, animVars,
                 running, diff, camera, model, frame, polls, closedFrame, procVars>>

\* program.setUniform("view", camera);
main_setView ==
  /\ pc = "main_setView"
  /\ ShaderSetUniform("view", camera)
  /\ Log("setUniform view")
  /\ pc' = "main_setProjection"
  /\ UNCHANGED <<caller, glVars, program, programs, activations, winVars, meshVars,
                 scene, obj, animVars, running, diff, camera, perspective, model, frame,
                 polls, closedFrame, procVars>>

\* program.setUniform("projection", perspective);
main_setProjection ==
  /\ pc = "main_setProjection"
  /\ ShaderSetUniform("projection", perspective)
  /\ Log("setUniform projection")
  /\ pc' = "main_animate"
  /\ UNCHANGED <<caller, glVars, program, programs, activations, winVars, meshVars,
                 scene, obj, animVars, running, diff, camera, perspective, model, frame,
                 polls, closedFrame, procVars>>

\* main_animate with the increments scaled by the elapsed time.
main_animate_timeScaled ==
  /\ pc = "main_animate"
  /\ objectOrientation' = <<objectOrientation[1],
                            FloatAddY(objectOrientation[2], diff * DeltaOrientationY),
                            objectOrientation[3]>>
  /\ objectPosition' = <<objectPosition[1], objectPosition[2],
                         FloatAddZ(objectPosition[3], diff * DeltaPositionZ)>>
  /\ Log("animate")
  /\ pc' = "main_buildModelMatrix"
  /\ UNCHANGED <<caller, glVars, shVars, winVars, meshVars, scene, obj, objectScale,
                 running, diff, camera, perspective, model, frame, polls, closedFrame,
                 procVars>>

\* objectOrientation += glm::vec3(0, 0.0003, 0);
\* objectPosition += glm::vec3(0, 0, 0.00005);
\* Component-wise float additions; x + 0 is x.
main_animate ==
  /\ pc = "main_animate"
  /\ objectOrientation' = <<objectOrientation[1],
                            FloatAddY(objectOrientation[2], DeltaOrientationY),
                            objectOrientation[3]>>
  /\ objectPosition' = <<objectPosition[1], objectPosition[2],
                         FloatAddZ(objectPosition[3], DeltaPositionZ)>>
  /\ Log("animate")
  /\ pc' = "main_buildModelMatrix"
  /\ UNCHANGED <<caller, glVars, shVars, winVars, meshVars, scene, obj, objectScale,
                 running, diff, camera, perspective, model, frame, polls, closedFrame,
                 procVars>>

\* buildModelMatrix: translate, then scale, then rotate about z, x and y.
buildModelMatrix(position, orientation, scale) ==
  [kind |-> "model",
   factors |-> << <<"translate", position>>, <<"scale", scale>>,
                  <<"rotateZ", orientation[3]>>, <<"rotateX", orientation[1]>>,
                  <<"rotateY", orientation[2]>> >>]

\* main_buildModelMatrix going on to the clear and the draw with the model
\* matrix not uploaded.
main_buildModelMatrix_noUpload ==
  /\ pc = "main_buildModelMatrix"
  /\ model' = buildModelMatrix(objectPosition, objectOrientation, objectScale)
  /\ Log("buildModelMatrix")
  /\ pc' = "main_glClear"
  /\ UNCHANGED <<caller, glVars, shVars, winVars, meshVars, scene, obj, animVars,
                 running, diff, camera, perspective, frame, polls, closedFrame, procVars>>

\* glm::mat4 model = buildModelMatrix(objectPosition, objectOrientation, objectScale);
main_buildModelMatrix ==
  /\ pc = "main_buildModelMatrix"
  /\ model' = buildModelMatrix(objectPosition, objectOrientation, objectScale)
  /\ Log("buildModelMatrix")
  /\ pc' = "main_setModel"
  /\ UNCHANGED <<caller, glVars, shVars, winVars, meshVars, scene, obj, animVars,
                 running, diff, camera, perspective, frame, polls, closedFrame, procVars>>

\* program.setUniform("model", model);
main_setModel ==
  /\ pc = "main_setModel"
  /\ ShaderSetUniform("model", model)
  /\ Log("setUniform model")
  /\ pc' = "main_glClear"
  /\ UNCHANGED <<caller, glVars, program, programs, activations, winVars, meshVars,
                 scene, obj, animVars, running, diff, camera, perspective, model, frame,
                 polls, closedFrame, procVars>>

\* glClear(GL_COLOR_BUFFER_BIT | GL_DEPTH_BUFFER_BIT);
main_glClear ==
  /\ pc = "main_glClear"
  /\ Log("clear")
  /\ pc' = "main_drawMesh"
  /\ UNCHANGED <<caller, glVars, shVars, winVars, meshVars, scene, obj, animVars,
                 running, diff, camera, perspective, model, frame, polls, closedFrame,
                 procVars>>

\* drawMesh(obj);                -- the call, the Mesh passed by value
main_drawMesh ==
  /\ pc = "main_drawMesh"
  /\ dm' = obj
  /\ caller' = "main_display"
  /\ pc' = "drawMesh"
  /\ UNCHANGED <<glVars, shVars, winVars, vertices, faces, m, vbo, ebo, made, drawCalls,
                 scene, obj, animVars, loopVars, procVars>>

\* window.display(); }          -- and back to the loop's test
main_display ==
  /\ pc = "main_display"
  /\ Log("present")
  /\ pc' = "main_while"
  /\ UNCHANGED <<caller, glVars, shVars, winVars, meshVars, scene, obj, animVars,
                 running, diff, camera, perspective, model, frame, polls, closedFrame,
                 procVars>>

\* return 0;  The locals are destroyed in reverse order: the ShaderProgram,
\* then the window.  Mesh has no destructor and nothing deletes the vertex
\* array or the two buffers.
main_return ==
  /\ pc = "main_return"
  /\ ShaderRelease
  /\ windowOpen' = FALSE
  /\ exitStatus' = 0
  /\ pc' = "exited"
  /\ UNCHANGED <<caller, polygonMode, depthTest, boundVAO, boundArrayBuffer, vaos,
                 buffers, program, uniforms, activations, windowSize, meshVars, scene,
                 obj, animVars, loopVars, errors>>

\* --------------------------------------------- the mesh functions alone
\* Valid arguments of constructMesh: a non-empty vertex list, and a face
\* list of 3 * nf indices, every one below the number of vertices.
MeshInputs ==
  { [vertices |-> SubSeq(CubeVertices, 1, nv),
     faces    |-> [k \in 1..(VERTICES_PER_FACE * nf) |-> (k - 1) % nv]] :
      nv \in 1..MaxVerts, nf \in 1..MaxFaces }

\* A call constructMesh(vertices, faces) on valid arguments.
call_constructMesh ==
  /\ pc = "idle"
  /\ Len(made) < MaxMeshes
  /\ \E input \in MeshInputs :
       /\ vertices' = input.vertices
       /\ faces' = input.faces
  /\ caller' = "idle"
  /\ pc' = "constructMesh"
  /\ UNCHANGED <<glVars, shVars, winVars, m, vbo, ebo, dm, made, drawCalls, scene, obj,
                 animVars, loopVars, procVars>>

\* cube(): the eight corners, the twelve triangles, return constructMesh(...).
cube ==
  /\ pc = "idle"
  /\ Len(made) < MaxMeshes
  /\ vertices' = CubeVertices
  /\ faces' = CubeFaces
  /\ caller' = "idle"
  /\ pc' = "constructMesh"
  /\ UNCHANGED <<glVars, shVars, winVars, m, vbo, ebo, dm, made, drawCalls, scene, obj,
                 animVars, loopVars, procVars>>

\* A call drawMesh(m) on a mesh that constructMesh returned.
call_drawMesh ==
  /\ pc = "idle"
  /\ Len(drawCalls) < MaxDraws
  /\ \E i \in 1..Len(made) : dm' = made[i].mesh
  /\ caller' = "idle"
  /\ pc' = "drawMesh"
  /\ UNCHANGED <<glVars, shVars, winVars, vertices, faces, m, vbo, ebo, made, drawCalls,
                 scene, obj, animVars, loopVars, procVars>>

Next ==
  \/ main_window \/ main_glPolygonMode
  \/ assimpLoad_ReadFile \/ assimpLoad_failed \/ assimpLoad_firstMesh
  \/ assimpLoad_noMesh \/ assimpLoad_return
  \/ constructMesh_begin \/ constructMesh_glGenVertexArrays
  \/ constructMesh_glBindVertexArray \/ constructMesh_glGenBuffers_vbo
  \/ constructMesh_glBindBuffer_vbo \/ constructMesh_glBufferData_vbo
  \/ constructMesh_glVertexAttribPointer \/ constructMesh_glEnableVertexAttribArray
  \/ constructMesh_glGenBuffers_ebo \/ constructMesh_glBindBuffer_ebo
  \/ constructMesh_glBufferData_ebo \/ constructMesh_unbind \/ constructMesh_return
  \/ perspectiveUniformColorShader_load \/ perspectiveUniformColorShader_activate
  \/ perspectiveUniformColorShader_catch
  \/ main_activate \/ main_setColor \/ main_locals \/ main_while \/ main_pollEvent
  \/ main_clock \/ main_lookAt \/ main_perspective \/ main_setView
  \/ main_setProjection \/ main_animate \/ main_buildModelMatrix \/ main_setModel
  \/ main_glClear \/ main_drawMesh
  \/ drawMesh_bind \/ drawMesh_glDrawElements \/ drawMesh_unbind
  \/ main_display \/ main_return

Spec == Init /\ [][Next]_vars

\* The mesh functions called in any order, in a context that exists.
MeshInit == InitCommon /\ pc = "idle" /\ windowOpen = TRUE

MeshNext ==
  \/ call_constructMesh \/ cube \/ call_drawMesh
  \/ constructMesh_begin \/ constructMesh_glGenVertexArrays
  \/ constructMesh_glBindVertexArray \/ constructMesh_glGenBuffers_vbo
  \/ constructMesh_glBindBuffer_vbo \/ constructMesh_glBufferData_vbo
  \/ constructMesh_glVertexAttribPointer \/ constructMesh_glEnableVertexAttribArray
  \/ constructMesh_glGenBuffers_ebo \/ constructMesh_glBindBuffer_ebo
  \/ constructMesh_glBufferData_ebo \/ constructMesh_unbind \/ constructMesh_return
  \/ drawMesh_bind \/ drawMesh_glDrawElements \/ drawMesh_unbind

MeshSpec == MeshInit /\ [][MeshNext]_vars

\* =============================================================== claims
IsPrefix(s, t) == Len(s) <= Len(t) /\ SubSeq(t, 1, Len(s)) = s
Range(s) == { s[i] : i \in 1..Len(s) }
\* The positions of the thread inside constructMesh and inside drawMesh.
InConstructMesh ==
  pc \in {"constructMesh", "cm_glGenVertexArrays", "cm_glBindVertexArray",
          "cm_glGenBuffers_vbo", "cm_glBindBuffer_vbo", "cm_glBufferData_vbo",
          "cm_glVertexAttribPointer", "cm_glEnableVertexAttribArray",
          "cm_glGenBuffers_ebo", "cm_glBindBuffer_ebo", "cm_glBufferData_ebo",
          "cm_unbind", "cm_return"}
InDrawMesh == pc \in {"drawMesh", "dm_glDrawElements", "dm_unbind"}
\* The loop has been reached (Running).
InRunning == pc = "main_while" \/ frame > 0
UniformUploads == {"setUniform view", "setUniform projection", "setUniform model"}

\* The order in which one iteration of the loop performs its steps.
FrameOrder ==
  <<"events", "lookAt", "perspective", "setUniform view", "setUniform projection",
    "animate", "buildModelMatrix", "setUniform model", "clear", "draw", "present">>

\* C1 (as amended): every iteration of the loop performs its steps in exactly
\* the order FrameOrder: drain the events, compute and upload view and
\* projection, advance the animation, build and upload the model matrix,
\* clear, draw, present.  The model upload follows the animation advance and
\* the draw follows all three uploads.
C1_FrameOrder ==
  /\ IsPrefix(frameLog, FrameOrder)
  /\ (pc \in {"main_while", "main_return"} /\ frame > 0) => frameLog = FrameOrder

C1_Witness == pc = "main_while" /\ frame = 2 /\ frameLog = FrameOrder

\* The phase the claim assigns to each step: events, animate, transform,
\* upload, clear, draw, present.
ClaimedPhase(step) ==
  CASE step = "events" -> 1
    [] step = "animate" -> 2
    [] step \in {"lookAt", "perspective", "buildModelMatrix"} -> 3
    [] step \in UniformUploads -> 4
    [] step = "clear" -> 5
    [] step = "draw" -> 6
    [] step = "present" -> 7

\* C1 (as claimed): the steps of an iteration come in the order events,
\* animate, transform, upload, clear, draw, present, so that no uniform upload
\* precedes the animation advance of its frame.
C1_ClaimedOrder ==
  \A i, j \in 1..Len(frameLog) :
    i < j => ClaimedPhase(frameLog[i]) <= ClaimedPhase(frameLog[j])

\* C2: once a close event has been seen in iteration K, no later iteration is
\* begun, and the process ends only after iteration K has cleared, drawn and
\* presented.
C2_CloseCompletesFrame ==
  closedFrame # 0 =>
    /\ frame = closedFrame
    /\ ~running
    /\ pc \in {"main_return", "exited"} =>
         /\ Len(frameLog) >= 3
         /\ SubSeq(frameLog, Len(frameLog) - 2, Len(frameLog)) = <<"clear", "draw", "present">>
    /\ exitStatus # StillRunning => exitStatus = 0

C2_Witness == closedFrame = 2 /\ pc = "exited" /\ exitStatus = 0 /\ Len(drawCalls) = 2

ImportFailed == scene.status = "nullptr"
ShaderFailed == program.error # "none"
NoMeshInScene == scene.status = "scene" /\ scene.mNumMeshes = 0

\* C3: the process ends with status 0 only after a close event was seen in
\* the loop; when the importer fails or the shader fails to load, the error is
\* reported once, the process ends with status 1, and the loop is never
\* entered: no per-frame upload, clear, draw or present happens.
C3_ExitStatus ==
  /\ exitStatus = 0 => closedFrame # 0
  /\ (ImportFailed \/ ShaderFailed) =>
       /\ pc \in {"al_check", "ps_catch", "exited"}
       /\ frame = 0 /\ frameLog = << >> /\ drawCalls = << >>
       /\ \A n \in {"view", "projection", "model"} : uniforms[n] = NoMatrix
       /\ Len(errors) <= 1
       /\ pc = "exited" => exitStatus = 1 /\ Len(errors) = 1

C3_Witness == pc = "exited" /\ exitStatus = 1 /\ program.error = "ShaderLinkError"

\* C4: a scene without a mesh ends initialization with status 1, as an
\* importer failure does: no mesh is read or constructed and the loop is never
\* entered.
C4_NoMeshIsFatal ==
  NoMeshInScene =>
    /\ pc \in {"al_check", "exited"}
    /\ made = << >> /\ frame = 0
    /\ pc = "exited" => exitStatus = 1 /\ Len(errors) = 1

\* C5: when the loop is reached, depth testing is enabled, wireframe fill
\* mode is selected and the shader program has been activated exactly once.
C5_ReadyAtRunning ==
  (pc = "main_while" /\ frame = 0) =>
    /\ depthTest
    /\ polygonMode = "GL_LINE"
    /\ activations = 1

\* C6: every setUniform and every drawMesh happens while the loaded program is
\* the program in use, and drawMesh leaves the program in use alone.
C6_ProgramActive ==
  /\ [](/\ (pc \in {"main_setColor", "main_setView", "main_setProjection",
                    "main_setModel"} \/ InDrawMesh) =>
              /\ program.linked
              /\ program.id \in programs
              /\ currentProgram = program.id
              /\ activations >= 1
          /\ \A i \in 1..Len(drawCalls) : drawCalls[i].program = program.id)
  /\ [][InDrawMesh => currentProgram' = currentProgram /\ activations' = activations]_vars

C6_Witness == pc = "main_display" /\ frame = 2 /\ uniforms["color"] # NoMatrix
                /\ uniforms["model"] # NoMatrix /\ Len(drawCalls) = 2

\* C7: the mesh constructMesh returns stores faces.size(), its index buffer
\* holds those indices, and every drawMesh on it issues one triangle-list
\* draw of faces.size() 32-bit indices from its vertex array; 36 for the cube.
C7_IndexCount ==
  /\ \A i \in 1..Len(made) :
       /\ made[i].mesh.faces = Len(made[i].faces)
       /\ made[i].mesh.vao \in DOMAIN vaos
       /\ Len(buffers[vaos[made[i].mesh.vao].elementBuffer]) = Len(made[i].faces)
       /\ made[i].faces = CubeFaces => made[i].mesh.faces = 36
       /\ \A j \in 1..Len(made) : made[j].mesh.vao = made[i].mesh.vao => j = i
  /\ \A k \in 1..Len(drawCalls) :
       \E i \in 1..Len(made) :
         /\ drawCalls[k].vao = made[i].mesh.vao
         /\ drawCalls[k].count = Len(made[i].faces)
         /\ drawCalls[k].mode = "GL_TRIANGLES"
         /\ drawCalls[k].type = "GL_UNSIGNED_INT"

C7_Witness ==
  /\ pc = "idle"
  /\ \E k \in 1..Len(drawCalls) : drawCalls[k].count = 36
  /\ \E k \in 1..Len(drawCalls) : drawCalls[k].count = 3

\* C8: when the process ends with status 0, the vertex array, the vertex
\* buffer and the index buffer made during initialization have been destroyed
\* and the shader program has been released.
C8_ReleasedAtExit ==
  exitStatus = 0 =>
    /\ DOMAIN vaos = {} /\ DOMAIN buffers = {}
    /\ programs = {}

\* The number of animation advances made so far.
AnimationSteps ==
  IF frame = 0 THEN 0
  ELSE (frame - 1) + (IF "animate" \in Range(frameLog) THEN 1 ELSE 0)

\* N float additions of the orientation increment, starting from 0.
RECURSIVE ChainY(_)
ChainY(n) == IF n = 0 THEN 0 ELSE FloatAddY(ChainY(n - 1), DeltaOrientationY)

\* What one float addition adds to objectPosition.z, in units of 2^-23.
PosZStep == RoundDivEven(DeltaPositionZ, PosZFine)

\* C9 (as amended): the animation advances exactly once per iteration by the
\* same increment whatever time elapsed; after N iterations orientation.y is
\* the N-fold float sum of 0.0003f and position.z is -2 + N * 419 * 2^-23
\* (each float addition of 0.00005f adds 419 units of 2^-23); scale and the
\* other components keep their initial values.
C9_FloatAccumulation ==
  InRunning =>
    /\ objectOrientation = <<0, ChainY(AnimationSteps), 0>>
    /\ objectPosition = <<0, PosYInit, PosZInit + AnimationSteps * PosZStep>>
    /\ objectScale = <<1, 1, 1>>

\* Five iterations done, one of them after a longer frame: position.z has
\* moved by 5 * 419 units and the fifth orientation sum was rounded (to
\* 51539608, below 5 * 10307922).
C9_Witness ==
  /\ pc = "main_while" /\ AnimationSteps = 5 /\ diff = 2
  /\ objectPosition[3] = PosZInit + 5 * 419
  /\ objectOrientation[2] = 5 * DeltaOrientationY - 2

\* C9 (as claimed): after N iterations orientation.y is 0 + N * 0.0003 and
\* position.z is -2 + N * 0.00005 (each as the float nearest to that value).
C9_ClaimedLinear ==
  InRunning =>
    /\ objectOrientation[2] = RoundToFloat(AnimationSteps * DeltaOrientationY)
    /\ objectPosition[3] = FloatAddZ(PosZInit, AnimationSteps * DeltaPositionZ)

\* C10: outside constructMesh and drawMesh no vertex array is bound.
C10_NoStaleBinding ==
  /\ ~(InConstructMesh \/ InDrawMesh) => boundVAO = 0
  /\ pc \in {"cm_return"} => boundVAO = 0

C10_Witness == pc = "idle" /\ Len(made) = 2 /\ Len(drawCalls) = 2 /\ boundVAO = 0
====
